---- MODULE Spec2Model ----
(***************************************************************************)
(* news-swipe-api: the feed server (GET /api/feed, POST /api/swipe,        *)
(* POST /api/reset) over the tables articles and user_swipes, and the      *)
(* batch ingestion job (ingest.js, both variants) that fills articles.     *)
(*                                                                         *)
(* A table row is a record; user_swipes is kept in swipe_time order, so a  *)
(* later row is a more recent swipe.  A feed row is represented by its     *)
(* article id.  Embedding coordinates are multiples of 6, so that the mean *)
(* of 1, 2 or 3 of them is computed without rounding.                      *)
(***************************************************************************)
EXTENDS Integers, Sequences, FiniteSets

VARIABLES
  articles,   \* table articles: set of [id, url, embedding]
  swipes,     \* table user_swipes: sequence of [user_id, article_id, liked]
  req,        \* the GET /api/feed request in progress, or the last one answered
  resp,       \* the last answer of POST /api/swipe or POST /api/reset
  deploy,     \* the ingestion deployment: which variant of ingest.js (1 or 2),
              \* whether GNEWS_API_KEY is set, what ML_SERVICE_URL names
  upstream,   \* what the headline source answers for each category
  ing,        \* the ingestion process: the locals of ingestArticles
  netlog,     \* what the current ingestion run did on the network, in order
  runs        \* number of ingestion runs started

vars == <<articles, swipes, req, resp, deploy, upstream, ing, netlog, runs>>

----------------------------------------------------------------------------
(* Bounds of the model *)

MaxSwipes == 4        \* rows in user_swipes, specification SpecTaste
MaxPostSwipes == 3    \* rows in user_swipes, specification SpecSwipe
MaxFeedSwipes == 2    \* rows in user_swipes, specification SpecFeed
MaxRuns == 2          \* ingestion runs, specification SpecIngest

Users == {1, 2}
SwipeIds == {1, 2}    \* article ids the clients swipe on
RandomDraws == {0, 1} \* outcomes drawn for one ORDER BY RANDOM()
ShuffleDraws == {"lo"} \* outcomes drawn for Math.random in one shuffle

(* Program constants *)
TASTE_PROFILE_SIZE == 3
SMART_FEED_SIZE == 7
DUMB_FEED_SIZE == 3
COLD_FEED_LIMIT == 10
CATEGORIES == <<"general", "technology", "science", "sports", "entertainment">>

----------------------------------------------------------------------------
(* Helpers *)

Null == <<>>

Min(a, b) == IF a < b THEN a ELSE b

SeqToSet(s) == {s[i] : i \in 1..Len(s)}

Reverse(s) == [i \in 1..Len(s) |-> s[Len(s) + 1 - i]]

Take(s, k) == SubSeq(s, 1, Min(k, Len(s)))

RECURSIVE SortAsc(_)
SortAsc(S) ==
  IF S = {} THEN <<>>
  ELSE LET m == CHOOSE x \in S : \A y \in S : x <= y
       IN <<m>> \o SortAsc(S \ {m})

Rotate(s, r) ==
  IF Len(s) = 0 THEN s
  ELSE LET k == r % Len(s)
       IN SubSeq(s, k + 1, Len(s)) \o SubSeq(s, 1, k)

ArticleIds == {a.id : a \in articles}

ArticleById(id) == CHOOSE a \in articles : a.id = id

----------------------------------------------------------------------------
(* averageVectors: sum coordinate by coordinate over the length of the     *)
(* first vector, then divide by the number of vectors.                     *)

RECURSIVE SumAt(_, _)
SumAt(vectors, i) ==
  IF Len(vectors) = 0 THEN 0
  ELSE Head(vectors)[i] + SumAt(Tail(vectors), i)

averageVectors(vectorStrings) ==
  IF Len(vectorStrings) = 0 THEN Null
  ELSE LET vectorLength == Len(vectorStrings[1])
           numVectors == Len(vectorStrings)
       IN [i \in 1..vectorLength |-> SumAt(vectorStrings, i) \div numVectors]

(* shuffleArray: Fisher-Yates from the last index down; Math.random is     *)
(* drawn once per call: "lo" gives j = first index, "hi" gives j = i.      *)
RECURSIVE shuffleFrom(_, _, _)
shuffleFrom(array, i, rnd) ==
  IF i <= 1 THEN array
  ELSE LET j == IF rnd = "lo" THEN 1 ELSE i
           swapped == [array EXCEPT ![i] = array[j], ![j] = array[i]]
       IN shuffleFrom(swapped, i - 1, rnd)

shuffleArray(array, rnd) == shuffleFrom(array, Len(array), rnd)

----------------------------------------------------------------------------
(* The queries of GET /api/feed *)

\* SELECT article_id FROM user_swipes WHERE user_id = $1
SwipedLikedOnly(u) ==
  {swipes[i].article_id : i \in {j \in 1..Len(swipes) :
                                   swipes[j].user_id = u /\ swipes[j].liked}}

SwipedBy(u) ==
  {swipes[i].article_id : i \in {j \in 1..Len(swipes) : swipes[j].user_id = u}}

\* WHERE id NOT IN (SELECT article_id FROM user_swipes WHERE user_id = $1)
Unswiped(u) == ArticleIds \ SwipedBy(u)

\* tasteQuery: embeddings joined to the user's liked rows, newest first, LIMIT $2
IsLikeOf(u, s) == s.user_id = u /\ s.liked /\ s.article_id \in ArticleIds

tasteQueryOldest(u, limit) ==
  LET liked == SelectSeq(swipes, LAMBDA s : IsLikeOf(u, s))
  IN [i \in 1..Min(limit, Len(liked)) |-> ArticleById(liked[i].article_id).embedding]

tasteQuery(u, limit) ==
  LET liked == Reverse(SelectSeq(swipes, LAMBDA s : IsLikeOf(u, s)))
  IN [i \in 1..Min(limit, Len(liked)) |-> ArticleById(liked[i].article_id).embedding]

\* similarity = 1 - (embedding <=> $2).  All coordinates are >= 0, so the
\* order of two similarities is the order of dot^2 / |embedding|^2 (the norm
\* of the taste vector is common to both).
RECURSIVE DotFrom(_, _, _)
DotFrom(e, t, i) ==
  IF i > Len(e) THEN 0 ELSE e[i] * t[i] + DotFrom(e, t, i + 1)

Dot(e, t) == DotFrom(e, t, 1)

MoreSimilar(a, b, taste) ==
  LET ea == ArticleById(a).embedding
      eb == ArticleById(b).embedding
  IN Dot(ea, taste) * Dot(ea, taste) * Dot(eb, eb)
       > Dot(eb, taste) * Dot(eb, taste) * Dot(ea, ea)

\* ORDER BY similarity DESC LIMIT k over the candidate ids; rows of equal
\* similarity come in the order the tie-break tb gives ("asc" or "desc" id).
RECURSIVE RankedTop(_, _, _, _)
RankedTop(S, k, taste, tb) ==
  IF k = 0 \/ S = {} THEN <<>>
  ELSE LET best == {a \in S : \A b \in S : ~MoreSimilar(b, a, taste)}
           pick == IF tb = "asc"
                   THEN CHOOSE a \in best : \A b \in best : a <= b
                   ELSE CHOOSE a \in best : \A b \in best : a >= b
       IN <<pick>> \o RankedTop(S \ {pick}, k - 1, taste, tb)

smartQuery(u, taste, tb) == RankedTop(Unswiped(u), SMART_FEED_SIZE, taste, tb)

\* ORDER BY RANDOM() LIMIT k: the draw r picks one of the orders.
RandomTake(S, k, r) == Take(Rotate(SortAsc(S), r), k)

\* smartArticleIds.join(',') or the sentinel '0' when there is none
idPlaceholders(smartArticleIds) ==
  IF Len(smartArticleIds) > 0 THEN SeqToSet(smartArticleIds) ELSE {0}

dumbQueryNoExclusion(u, smartRows, r) ==
  RandomTake(Unswiped(u), DUMB_FEED_SIZE, r)

dumbQuery(u, smartRows, r) ==
  RandomTake(Unswiped(u) \ idPlaceholders(smartRows), DUMB_FEED_SIZE, r)

coldQueryShort(u, r) == RandomTake(Unswiped(u), DUMB_FEED_SIZE, r)

coldQuery(u, r) == RandomTake(Unswiped(u), COLD_FEED_LIMIT, r)

----------------------------------------------------------------------------
(* GET /api/feed, one action per await.  req.pc is the query the handler   *)
(* runs next; "idle" and "done" mean no request is in progress.  A query   *)
(* that throws (ok = FALSE) is answered 500.                               *)

IdleReq == [user |-> 1, pc |-> "idle", taste |-> Null, smartSeen |-> {},
            smartRows |-> <<>>, dumbRows |-> <<>>, feed |-> <<>>, status |-> 0]

Failed(u) == [IdleReq EXCEPT !.user = u, !.pc = "done", !.status = 500]

FeedTaste(u, ok) ==
  /\ req.pc \in {"idle", "done"}
  /\ LET tasteResult == tasteQuery(u, TASTE_PROFILE_SIZE)
     IN req' = IF ~ok THEN Failed(u)
               ELSE IF Len(tasteResult) > 0
               THEN [IdleReq EXCEPT !.user = u, !.pc = "smart",
                                    !.taste = averageVectors(tasteResult)]
               ELSE [IdleReq EXCEPT !.user = u, !.pc = "cold"]
  /\ UNCHANGED <<articles, swipes, resp, deploy, upstream, ing, netlog, runs>>

FeedSmart(ok, tb) ==
  /\ req.pc = "smart"
  /\ req' = IF ~ok THEN Failed(req.user)
            ELSE [req EXCEPT !.pc = "dumb",
                             !.smartSeen = Unswiped(req.user),
                             !.smartRows = smartQuery(req.user, req.taste, tb)]
  /\ UNCHANGED <<articles, swipes, resp, deploy, upstream, ing, netlog, runs>>

FeedDumb(ok, r, rnd) ==
  /\ req.pc = "dumb"
  /\ LET dumbRows == dumbQuery(req.user, req.smartRows, r)
     IN req' = IF ~ok THEN Failed(req.user)
               ELSE [req EXCEPT !.pc = "done", !.status = 200,
                                !.dumbRows = dumbRows,
                                !.feed = shuffleArray(req.smartRows \o dumbRows, rnd)]
  /\ UNCHANGED <<articles, swipes, resp, deploy, upstream, ing, netlog, runs>>

FeedCold(ok, r) ==
  /\ req.pc = "cold"
  /\ req' = IF ~ok THEN Failed(req.user)
            ELSE [req EXCEPT !.pc = "done", !.status = 200,
                             !.feed = coldQuery(req.user, r)]
  /\ UNCHANGED <<articles, swipes, resp, deploy, upstream, ing, netlog, runs>>

----------------------------------------------------------------------------
(* POST /api/swipe and POST /api/reset.  A body field is absent (has* =    *)
(* FALSE) or carries a value; articleId 0 is present but falsy.            *)

Body(hasId, articleId, hasLiked, liked) ==
  [hasId |-> hasId, articleId |-> articleId, hasLiked |-> hasLiked, liked |-> liked]

NoBody == Body(FALSE, 0, FALSE, FALSE)

NoResp == [op |-> "none", user |-> 0, body |-> NoBody, status |-> 0]

\* !articleId || liked === undefined
MissingFieldsIdOnly(body) == ~body.hasId \/ body.articleId = 0

MissingFields(body) ==
  (~body.hasId \/ body.articleId = 0) \/ ~body.hasLiked

RecordSwipe(u, body, ok) ==
  /\ IF MissingFields(body)
     THEN /\ resp' = [op |-> "swipe", user |-> u, body |-> body, status |-> 400]
          /\ swipes' = swipes
     ELSE IF ~ok
     THEN /\ resp' = [op |-> "swipe", user |-> u, body |-> body, status |-> 500]
          /\ swipes' = swipes
     ELSE /\ resp' = [op |-> "swipe", user |-> u, body |-> body, status |-> 201]
          /\ swipes' = Append(swipes, [user_id |-> u,
                                       article_id |-> body.articleId,
                                       liked |-> body.liked])
  /\ UNCHANGED <<articles, req, deploy, upstream, ing, netlog, runs>>

\* DELETE FROM user_swipes WHERE user_id = $1
ResetSwipesAll(u, ok) ==
  /\ IF ok
     THEN /\ swipes' = <<>>
          /\ resp' = [op |-> "reset", user |-> u, body |-> NoBody, status |-> 200]
     ELSE /\ swipes' = swipes
          /\ resp' = [op |-> "reset", user |-> u, body |-> NoBody, status |-> 500]
  /\ UNCHANGED <<articles, req, deploy, upstream, ing, netlog, runs>>

ResetSwipes(u, ok) ==
  /\ IF ok
     THEN /\ swipes' = SelectSeq(swipes, LAMBDA s : s.user_id # u)
          /\ resp' = [op |-> "reset", user |-> u, body |-> NoBody, status |-> 200]
     ELSE /\ swipes' = swipes
          /\ resp' = [op |-> "reset", user |-> u, body |-> NoBody, status |-> 500]
  /\ UNCHANGED <<articles, req, deploy, upstream, ing, netlog, runs>>

----------------------------------------------------------------------------
(* ingest.js.  A candidate is a headline of the external source together   *)
(* with what the embedding service answers for its text:                   *)
(*   "vector": 200, embedding is an array of numbers (vec)                 *)
(*   "fail":   transport error or non-2xx answer                           *)
(*   "object": 200, embedding is an object carrying an error field         *)
(*   "string": 200, embedding is a string                                  *)

(* title, image, description, source: whether the headline carries the     *)
(* field.                                                                  *)

Cand(url, title, image, description, source, ml, vec) ==
  [url |-> url, title |-> title, image |-> image, description |-> description,
   source |-> source, ml |-> ml, vec |-> vec]

cA == Cand(1, TRUE, TRUE, TRUE, TRUE, "vector", <<6, 0>>)
cB == Cand(2, TRUE, TRUE, TRUE, TRUE, "vector", <<0, 6>>)
cInc == Cand(3, TRUE, TRUE, FALSE, TRUE, "vector", <<6, 6>>)
cNull == Cand(3, TRUE, TRUE, TRUE, TRUE, "fail", <<>>)
cObj == Cand(3, TRUE, TRUE, TRUE, TRUE, "object", <<>>)
cStr == Cand(3, TRUE, TRUE, TRUE, TRUE, "string", <<>>)
cNoSrc == Cand(3, TRUE, TRUE, TRUE, FALSE, "vector", <<6, 6>>)

\* what axios.get(gnewsUrl) gives: an HTTP status and response.data.articles
Response(status, list) == [status |-> status, articles |-> list]

Responses ==
  { Response(429, <<>>), Response(500, <<>>), Response(200, <<>>),
    Response(200, <<cA, cInc, cNull, cB>>),
    Response(200, <<cB, cObj, cA>>),
    Response(200, <<cB, cStr, cA>>),
    Response(200, <<cA, cNoSrc, cB>>) }

\* getEmbedding: the value of response.data.embedding, or null from the catch
getEmbedding(cand) ==
  IF cand.ml = "fail" THEN [kind |-> "null", vec |-> <<>>]
  ELSE IF cand.ml = "vector" THEN [kind |-> "array", vec |-> cand.vec]
  ELSE [kind |-> cand.ml, vec |-> <<>>]

\* if (!embedding)            (first variant)
\* if (!embedding || embedding.error)   (second variant)
EmbeddingRejected(v, embedding) ==
  embedding.kind = "null" \/ (v = 2 /\ embedding.kind = "object")

\* building the insert: embedding.join(',') exists on arrays only, and
\* article.source.name needs article.source
BuildThrows(article, embedding) == embedding.kind # "array" \/ ~article.source

MaxId == IF articles = {} THEN 0
         ELSE CHOOSE m \in ArticleIds : \A x \in ArticleIds : x <= m

\* INSERT INTO articles ... ON CONFLICT (article_url) DO NOTHING: the new table
InsertAlways(cand, embedding) ==
  articles \cup {[id |-> MaxId + 1, url |-> cand.url, embedding |-> embedding.vec]}

InsertArticle(cand, embedding) ==
  IF \E a \in articles : a.url = cand.url
  THEN articles
  ELSE articles \cup {[id |-> MaxId + 1, url |-> cand.url,
                       embedding |-> embedding.vec]}

IdleIng == [pc |-> "idle", category |-> 0, list |-> <<>>, i |-> 0,
            categoryProcessedCount |-> 0, totalProcessedCount |-> 0,
            fault |-> "none", client |-> "none", reported |-> -1, exitCode |-> -1]

\* return before the run: GNEWS_API_KEY unset, or (second variant) ML_SERVICE_URL
\* unset or naming localhost
ConfigMissing(v, keySet, mlUrl) ==
  ~keySet \/ (v = 2 /\ mlUrl \in {"unset", "localhost"})

StartRun(keySet, mlUrl) ==
  /\ ing.pc \in {"idle", "exited"}
  /\ runs' = runs + 1
  /\ netlog' = <<>>
  /\ ing' = IF ConfigMissing(deploy.variant, keySet, mlUrl)
            THEN [IdleIng EXCEPT !.pc = "exited", !.fault = "config", !.exitCode = 0]
            ELSE [IdleIng EXCEPT !.pc = "fetch", !.category = 1, !.client = "held"]
  /\ UNCHANGED <<articles, swipes, req, resp, deploy, upstream>>

\* the loop header: the next category, or the end of the for loop
NextCategory(s) ==
  IF s.category = Len(CATEGORIES)
  THEN [s EXCEPT !.pc = "finish"]
  ELSE [s EXCEPT !.pc = "fetch", !.category = s.category + 1]

Fetched429Continue(response) ==
  IF response.status = 429
  THEN [NextCategory(ing) EXCEPT !.fault = "429"]
  ELSE IF response.status # 200
  THEN [ing EXCEPT !.pc = "finish", !.fault = "exception"]
  ELSE IF Len(response.articles) = 0
  THEN NextCategory(ing)
  ELSE [ing EXCEPT !.pc = "loop", !.list = response.articles, !.i = 1,
                   !.categoryProcessedCount = 0]

\* axios.get, the 429 break, the rethrow, the empty-category continue
Fetched(response) ==
  IF response.status = 429
  THEN [ing EXCEPT !.pc = "finish", !.fault = "429"]
  ELSE IF response.status # 200
  THEN [ing EXCEPT !.pc = "finish", !.fault = "exception"]
  ELSE IF Len(response.articles) = 0
  THEN NextCategory(ing)
  ELSE [ing EXCEPT !.pc = "loop", !.list = response.articles, !.i = 1,
                   !.categoryProcessedCount = 0]

FetchCategory ==
  /\ ing.pc = "fetch"
  /\ netlog' = Append(netlog, [ev |-> "fetch", category |-> ing.category])
  /\ ing' = Fetched(upstream[ing.category])
  /\ UNCHANGED <<articles, swipes, req, resp, deploy, upstream, runs>>

\* one iteration of: for (const article of articles)
ProcessArticle ==
  /\ ing.pc = "loop"
  /\ LET article == ing.list[ing.i]
         embedding == getEmbedding(article)
         next == IF ing.i = Len(ing.list)
                 THEN [ing EXCEPT !.pc = "endcat"]
                 ELSE [ing EXCEPT !.i = ing.i + 1]
     IN IF ~article.title \/ ~article.image \/ ~article.description
        THEN ing' = next /\ articles' = articles
        ELSE IF EmbeddingRejected(deploy.variant, embedding)
        THEN ing' = next /\ articles' = articles
        ELSE IF BuildThrows(article, embedding)
        THEN /\ ing' = [ing EXCEPT !.pc = "finish", !.fault = "exception"]
             /\ articles' = articles
        ELSE /\ articles' = InsertArticle(article, embedding)
             /\ ing' = IF articles' # articles
                       THEN [next EXCEPT !.categoryProcessedCount = @ + 1]
                       ELSE next
  /\ UNCHANGED <<swipes, req, resp, deploy, upstream, netlog, runs>>

\* after the inner loop: add the category's count, sleep unless it was the last
EndCategory ==
  /\ ing.pc = "endcat"
  /\ ing' = NextCategory([ing EXCEPT !.totalProcessedCount =
                                       @ + ing.categoryProcessedCount])
  /\ netlog' = IF ing.category # Len(CATEGORIES)
               THEN Append(netlog, [ev |-> "sleep", category |-> ing.category])
               ELSE netlog
  /\ UNCHANGED <<articles, swipes, req, resp, deploy, upstream, runs>>

\* catch, finally, the summary, pool.end(): the process ends
Finish ==
  /\ ing.pc = "finish"
  /\ ing' = [ing EXCEPT !.pc = "exited", !.client = "released",
                        !.reported = ing.totalProcessedCount, !.exitCode = 0]
  /\ UNCHANGED <<articles, swipes, req, resp, deploy, upstream, netlog, runs>>

----------------------------------------------------------------------------
(* The corpus earlier runs left behind, for the specifications that start  *)
(* from a populated table.                                                 *)

CatalogueEmbedding(i) ==
  CASE i % 4 = 1 -> <<6, 0>>
    [] i % 4 = 2 -> <<0, 6>>
    [] i % 4 = 3 -> <<6, 6>>
    [] OTHER -> <<12, 6>>

Catalogue(n) ==
  {[id |-> i, url |-> 100 + i, embedding |-> CatalogueEmbedding(i)] : i \in 1..n}

----------------------------------------------------------------------------
(* SpecIngest: ingestion runs alone, from an empty corpus, against every   *)
(* upstream that answers each category with one of Responses.              *)

InitIngest ==
  /\ articles = {}
  /\ swipes = <<>>
  /\ req = IdleReq
  /\ resp = NoResp
  /\ deploy \in [variant : {1, 2}, keySet : BOOLEAN,
                 mlUrl : {"unset", "localhost", "public"}]
  /\ upstream \in [1..Len(CATEGORIES) -> Responses]
  /\ ing = IdleIng
  /\ netlog = <<>>
  /\ runs = 0

Start == runs < MaxRuns /\ StartRun(deploy.keySet, deploy.mlUrl)

NextIngest ==
  \/ Start
  \/ FetchCategory
  \/ ProcessArticle
  \/ EndCategory
  \/ Finish

SpecIngest == InitIngest /\ [][NextIngest]_vars

----------------------------------------------------------------------------
(* The requests of the clients.  User 1 is the user under study; user 2 is *)
(* a bystander who only ever likes article 1.                              *)

Like(articleId) == Body(TRUE, articleId, TRUE, TRUE)

\* well-formed swipes on the articles of the corpus
SwipeInputs ==
  {<<1, Body(TRUE, articleId, TRUE, liked)>> :
     articleId \in SwipeIds \cap ArticleIds, liked \in BOOLEAN}
  \cup {<<2, Like(articleId)>> : articleId \in {1} \cap ArticleIds}

\* every shape of body: a field is absent, or present with a value
Bodies ==
  {b \in [hasId : BOOLEAN, articleId : {0} \cup (SwipeIds \cap ArticleIds),
          hasLiked : BOOLEAN, liked : BOOLEAN] :
     (~b.hasId => b.articleId = 0) /\ (~b.hasLiked => ~b.liked)}

GetFeedTaste == \E u \in Users, ok \in BOOLEAN : FeedTaste(u, ok)

GetFeedSmart == \E ok \in BOOLEAN, tb \in {"asc", "desc"} : FeedSmart(ok, tb)

GetFeedDumb ==
  \E ok \in BOOLEAN, r \in RandomDraws, rnd \in ShuffleDraws :
    FeedDumb(ok, r, rnd)

GetFeedCold == \E ok \in BOOLEAN, r \in RandomDraws : FeedCold(ok, r)

ResetUser == \E u \in Users : ResetSwipes(u, TRUE)

----------------------------------------------------------------------------
(* SpecSwipe: POST /api/swipe with every shape of body and POST /api/reset *)
(* over a corpus of three articles.                                        *)

InitServer ==
  /\ swipes = <<>>
  /\ req = IdleReq
  /\ resp = NoResp
  /\ deploy = [variant |-> 1, keySet |-> TRUE, mlUrl |-> "public"]
  /\ ing = IdleIng
  /\ netlog = <<>>
  /\ runs = 0

InitSwipe ==
  /\ InitServer
  /\ articles = Catalogue(3)
  /\ upstream = [k \in 1..Len(CATEGORIES) |-> Response(429, <<>>)]

PostSwipe ==
  /\ Len(swipes) < MaxPostSwipes
  /\ \E u \in Users, body \in Bodies, ok \in BOOLEAN : RecordSwipe(u, body, ok)

PostReset == \E u \in Users, ok \in BOOLEAN : ResetSwipes(u, ok)

NextSwipe ==
  \/ PostSwipe
  \/ PostReset

SpecSwipe == InitSwipe /\ [][NextSwipe]_vars

----------------------------------------------------------------------------
(* SpecTaste: longer swipe histories over the corpus of three articles,    *)
(* with resets that succeed or fail.                                       *)

TasteSwipe ==
  /\ Len(swipes) < MaxSwipes
  /\ \E in \in SwipeInputs : RecordSwipe(in[1], in[2], TRUE)

NextTaste ==
  \/ TasteSwipe
  \/ PostReset
  \/ GetFeedTaste
  \/ GetFeedSmart
  \/ GetFeedDumb
  \/ GetFeedCold

SpecTaste == InitSwipe /\ [][NextTaste]_vars

----------------------------------------------------------------------------
(* SpecFeed: the server over a small or a large corpus, with well-formed   *)
(* swipes, resets and one ingestion run going on at the same time.         *)

InitCorpusSizes == {1, 10}

FeedUpstream ==
  [k \in 1..Len(CATEGORIES) |->
     IF k = 1 THEN Response(200, <<cA>>) ELSE Response(429, <<>>)]

InitFeed ==
  /\ InitServer
  /\ \E n \in InitCorpusSizes : articles = Catalogue(n)
  /\ upstream = FeedUpstream

SwipeArticle ==
  /\ Len(swipes) < MaxFeedSwipes
  /\ \E in \in SwipeInputs : RecordSwipe(in[1], in[2], TRUE)

StartOnce == runs < 1 /\ StartRun(deploy.keySet, deploy.mlUrl)

NextFeed ==
  \/ GetFeedTaste
  \/ GetFeedSmart
  \/ GetFeedDumb
  \/ GetFeedCold
  \/ SwipeArticle
  \/ ResetUser
  \/ StartOnce
  \/ FetchCategory
  \/ ProcessArticle
  \/ EndCategory
  \/ Finish

SpecFeed == InitFeed /\ [][NextFeed]_vars

----------------------------------------------------------------------------
(* What the properties below read off the tables *)

CorpusIds == {a.id : a \in articles}

EmbeddingOf(id) == (CHOOSE a \in articles : a.id = id).embedding

RowsOf(u) == {i \in 1..Len(swipes) : swipes[i].user_id = u}

SwipedIdsOf(u) == {swipes[i].article_id : i \in RowsOf(u)}

UnswipedIdsOf(u) == CorpusIds \ SwipedIdsOf(u)

LikesOf(u) == {i \in RowsOf(u) : swipes[i].liked}

RecentLikesOf(u) ==
  {i \in LikesOf(u) : Cardinality({j \in LikesOf(u) : j > i}) < 3}

RECURSIVE CoordSum(_, _)
CoordSum(I, k) ==
  IF I = {} THEN 0
  ELSE LET i == CHOOSE x \in I : TRUE
       IN EmbeddingOf(swipes[i].article_id)[k] + CoordSum(I \ {i}, k)

NoDuplicates(s) == \A i, j \in 1..Len(s) : s[i] = s[j] => i = j

SmartAnswered == req.pc = "smart" /\ req'.pc = "dumb"

FeedAnswered == req.pc \in {"dumb", "cold"} /\ req'.pc = "done" /\ req'.status = 200

----------------------------------------------------------------------------
(* C1: no row a feed query returns is an article the requesting user has a *)
(* swipe row for (liked or disliked) when the query runs: the smart rows,  *)
(* the dumb rows and the cold-start rows; so a feed whose queries saw the  *)
(* same unswiped set holds no swiped article at all.                       *)
C1_FeedExcludesSwiped ==
  [][ /\ SmartAnswered =>
           SeqToSet(req'.smartRows) \cap SwipedIdsOf(req.user) = {}
      /\ FeedAnswered =>
           /\ SeqToSet(req'.dumbRows) \cap SwipedIdsOf(req.user) = {}
           /\ (req.pc = "cold" \/ req.smartSeen = UnswipedIdsOf(req.user)) =>
                SeqToSet(req'.feed) \cap SwipedIdsOf(req.user) = {} ]_vars

C1_Witness ==
  /\ req.pc = "done" /\ req.status = 200
  /\ Len(req.smartRows) = 7 /\ Len(req.feed) = 10
  /\ \E i \in RowsOf(req.user) : ~swipes[i].liked
  /\ \E i \in RowsOf(req.user) : swipes[i].liked
  /\ SeqToSet(req.feed) \cap SwipedIdsOf(req.user) = {}
  /\ Cardinality(articles) = 11

(* C2: a warm feed is at most 7 smart rows and at most 3 dumb rows, the    *)
(* two disjoint, so it has at most 10 items and no article id twice; also  *)
(* when swipes, resets or inserts commit between the queries.              *)
C2_WarmFeedBlend ==
  (req.pc = "done" /\ req.status = 200 /\ req.taste # Null) =>
     /\ Len(req.smartRows) <= 7
     /\ Len(req.dumbRows) <= 3
     /\ SeqToSet(req.smartRows) \cap SeqToSet(req.dumbRows) = {}
     /\ Len(req.feed) = Len(req.smartRows) + Len(req.dumbRows)
     /\ SeqToSet(req.feed) = SeqToSet(req.smartRows) \cup SeqToSet(req.dumbRows)
     /\ NoDuplicates(req.feed)
     /\ Len(req.feed) <= 10

\* a dumb row that was not unswiped when the smart query ran: something
\* committed between the two queries
C2_Witness ==
  /\ req.pc = "done" /\ req.status = 200 /\ req.taste # Null
  /\ Len(req.smartRows) = 7 /\ Len(req.dumbRows) = 3
  /\ \E a \in SeqToSet(req.dumbRows) : a \notin req.smartSeen

C4_TasteIsMeanOfRecentLikes ==
  [][ (req.pc \in {"idle", "done"} /\ req'.pc \in {"smart", "cold"}) =>
        LET u == req'.user
            n == Cardinality(RecentLikesOf(u))
        IN /\ (req'.pc = "cold") <=> (LikesOf(u) = {})
           /\ (req'.taste = Null) <=> (LikesOf(u) = {})
           /\ LikesOf(u) # {} =>
                /\ \A a \in articles : Len(req'.taste) = Len(a.embedding)
                /\ \A k \in 1..Len(req'.taste) :
                     req'.taste[k] * n = CoordSum(RecentLikesOf(u), k) ]_vars

\* four likes, the three recent ones with an article liked twice and another
C4_Witness ==
  /\ req.pc = "smart" /\ req.user = 1
  /\ Cardinality(LikesOf(1)) = 4
  /\ \E i, j \in RecentLikesOf(1) :
       i # j /\ swipes[i].article_id = swipes[j].article_id
  /\ \E i, j \in RecentLikesOf(1) : swipes[i].article_id # swipes[j].article_id
  /\ \E i \in LikesOf(1) \ RecentLikesOf(1) :
       EmbeddingOf(swipes[i].article_id) # EmbeddingOf(swipes[Len(swipes)].article_id)
  /\ \A k \in 1..Len(req.taste) : req.taste[k] * 3 = CoordSum(RecentLikesOf(1), k)

----------------------------------------------------------------------------
FetchedCategories(log) ==
  LET fetches == SelectSeq(log, LAMBDA e : e.ev = "fetch")
  IN [i \in 1..Len(fetches) |-> fetches[i].category]

(* C5: once the source answers 429 for category k the run is over: the     *)
(* categories fetched are exactly 1..k, no step of the run changes the     *)
(* corpus any more (nothing of category k or later is inserted, what was   *)
(* inserted stays).                                                        *)
C5_RateLimitStopsRun ==
  [][ (ing'.fault = "429" /\ runs' = runs) =>
        /\ upstream[ing'.category].status = 429
        /\ ing'.pc \in {"finish", "exited"}
        /\ FetchedCategories(netlog') = [i \in 1..ing'.category |-> i]
        /\ articles' = articles ]_vars

C5_Witness ==
  /\ ing.pc = "exited" /\ ing.fault = "429" /\ ing.category = 2 /\ runs = 1
  /\ Cardinality(articles) = 2
  /\ FetchedCategories(netlog) = <<1, 2>>

(* C6: no two articles share a URL, and a run after the first, against the *)
(* same source and embedding service, changes no row and counts no new row.*)
C6_IdempotentIngestion ==
  [][ /\ \A a, b \in articles' : a.url = b.url => a = b
      /\ runs' >= 2 =>
           /\ articles' = articles
           /\ ing'.categoryProcessedCount = 0
           /\ ing'.totalProcessedCount = 0
           /\ ing'.reported \in {-1, 0} ]_vars

C6_Witness ==
  /\ runs = 2 /\ ing.pc = "exited" /\ ing.fault = "none" /\ ing.reported = 0
  /\ Cardinality(articles) = 2
  /\ \E k \in 1..Len(CATEGORIES) : Len(upstream[k].articles) > 0

(* C7: a candidate whose embedding call fails (transport error, non-2xx,   *)
(* malformed body) is skipped: no row is written and the run goes on.      *)
C7_EmbeddingFailureSkips ==
  [][ (/\ ing.pc = "loop"
       /\ ing.list[ing.i].title /\ ing.list[ing.i].image
       /\ ing.list[ing.i].description /\ ing.list[ing.i].source
       /\ ing.list[ing.i].ml # "vector") =>
        /\ articles' = articles
        /\ ing'.fault = "none"
        /\ ing'.pc \in {"loop", "endcat"} ]_vars

(* C8: the process ends with a non-zero status exactly when the run met an *)
(* unrecoverable error: missing configuration, 429, or an exception.       *)
C8_ExitStatus ==
  ing.pc = "exited" => ((ing.exitCode # 0) <=> (ing.fault # "none"))

(* C9: however the first run over the empty corpus ends, the total it      *)
(* reports is the number of rows it inserted.                              *)
C9_ReportedTotal ==
  (runs = 1 /\ ing.pc = "exited" /\ ing.fault # "config") =>
     ing.reported = Cardinality(articles)

----------------------------------------------------------------------------
SwipeAnswered == resp'.op = "swipe" /\ (resp' # resp \/ swipes' # swipes)

Lacks(body) == ~body.hasId \/ ~body.hasLiked

Falsy(body) == body.hasId /\ body.articleId = 0

StoredRow(r) ==
  [user_id |-> r.user, article_id |-> r.body.articleId, liked |-> r.body.liked]

(* C10, as claimed: a body that lacks articleId or liked is answered 400   *)
(* and writes nothing; a body with both fields appends exactly one row     *)
(* (unless the datastore refuses the insert).                              *)
C10_BothFieldsAppend ==
  [][ SwipeAnswered =>
        /\ Lacks(resp'.body) => (resp'.status = 400 /\ swipes' = swipes)
        /\ (~Lacks(resp'.body) /\ resp'.status # 500) =>
             swipes' = Append(swipes, StoredRow(resp')) ]_vars

(* C10, amended: a body that lacks articleId or liked, or whose articleId  *)
(* is falsy (0), is answered 400 and writes nothing; any other body is     *)
(* answered 201 with exactly one row appended for the authenticated user,  *)
(* or 500 with nothing written.                                            *)
C10_SwipeValidation ==
  [][ SwipeAnswered =>
        /\ (Lacks(resp'.body) \/ Falsy(resp'.body)) =>
             (resp'.status = 400 /\ swipes' = swipes)
        /\ ~(Lacks(resp'.body) \/ Falsy(resp'.body)) =>
             \/ resp'.status = 201 /\ swipes' = Append(swipes, StoredRow(resp'))
             \/ resp'.status = 500 /\ swipes' = swipes ]_vars

\* a second row of the same user on the same article
C10_Witness ==
  /\ resp.op = "swipe" /\ resp.status = 201
  /\ Len(swipes) = 2
  /\ swipes[2] = StoredRow(resp)
  /\ swipes[1].user_id = swipes[2].user_id
  /\ swipes[1].article_id = swipes[2].article_id

----------------------------------------------------------------------------
HistoryOf(v) == SelectSeq(swipes, LAMBDA s : s.user_id = v)

ResetAnswered == resp'.op = "reset" /\ (resp' # resp \/ swipes' # swipes)

TasteAnswered == req.pc \in {"idle", "done"} /\ req'.pc \in {"smart", "cold"}

(* C11: a reset of user u answered 200 leaves u without any swipe row, so  *)
(* that every corpus article is unswiped for u again, and leaves the rows  *)
(* of every other user (in order) and the corpus as they were; a reset     *)
(* answered 500 deletes nothing.  Afterwards only a like of u gives u a    *)
(* liked row again, and as long as u has none a feed request of u whose    *)
(* taste query runs then finds no taste vector and takes the cold-start    *)
(* path; if u has not swiped at all since, that feed is drawn from the     *)
(* whole corpus.                                                           *)
C11_ResetRestartsColdStart ==
  [][ /\ \A u \in Users :
           (ResetAnswered /\ resp'.user = u) =>
              /\ articles' = articles
              /\ \A v \in Users \ {u} : HistoryOf(v)' = HistoryOf(v)
              /\ resp'.status = 200 =>
                   /\ RowsOf(u)' = {}
                   /\ UnswipedIdsOf(u)' = CorpusIds'
              /\ resp'.status # 200 => swipes' = swipes
      /\ \A u \in Users :
           (LikesOf(u) = {} /\ LikesOf(u)' # {}) =>
              /\ resp'.op = "swipe" /\ resp'.user = u
              /\ resp'.body.liked /\ resp'.status = 201
      /\ (TasteAnswered /\ LikesOf(req'.user) = {}) =>
           (req'.pc = "cold" /\ req'.taste = Null)
      /\ (FeedAnswered /\ req.pc = "cold" /\ RowsOf(req.user) = {}) =>
           /\ SeqToSet(req'.feed) \subseteq CorpusIds
           /\ Len(req'.feed) = Min(10, Cardinality(CorpusIds))
           /\ NoDuplicates(req'.feed) ]_vars

\* user 1 had liked rows (a warm feed was answered to user 1) and has no row
\* left after the reset, while the bystander still has one
C11_Witness ==
  /\ resp.op = "reset" /\ resp.user = 1 /\ resp.status = 200
  /\ req.user = 1 /\ req.pc = "done" /\ req.status = 200 /\ req.taste # Null
  /\ RowsOf(1) = {}
  /\ RowsOf(2) # {}

----------------------------------------------------------------------------
(* C12: in an ingestion run two consecutive fetches of the headline source *)
(* are separated by a pause: a fetch is never directly followed by another *)
(* fetch, whatever the earlier category returned.                          *)
C12_PauseBetweenFetches ==
  \A i \in 1..(Len(netlog) - 1) :
    netlog[i].ev = "fetch" => netlog[i + 1].ev = "sleep"

====
